---- MODULE Spec2Model ----
(***************************************************************************)
(* The App component of src/src/App.js: a Formik form, an amenity          *)
(* selector, one Leaflet map widget kept in mapRef, and an Overpass fetch  *)
(* whose result is drawn as markers.                                       *)
(*                                                                         *)
(* React is modelled as it schedules this component: the state setters of  *)
(* one handler are batched into one render; a commit runs the cleanups of  *)
(* the effects whose dependencies changed (Object.is), then their setups   *)
(* in declaration order; a commit and its effects are never interleaved    *)
(* with another handler.  Decimal numerals are kept as the strings the     *)
(* user typed ("28.7"); "" is the empty input.                             *)
(***************************************************************************)
EXTENDS Integers, Sequences, FiniteSets, TLC

\* ------------------------------------------------------------------ bounds
\* Number of map widgets ever created (one per run of the map effect).
MaxMaps == 3
\* Length of the longest elements array the API answers with.
MaxResultLen == 2

\* --------------------------------------------------------------- constants
\* node(around:5000,lat,lon)
Radius == 5000

typeOptions == <<"restaurant", "hospital", "school", "place_of_worship">>

AmenityTypes == {typeOptions[i] : i \in DOMAIN typeOptions}

amenityIcons ==
  [hospital |-> "hospital.svg", school |-> "school.svg",
   restaurant |-> "restaurant.svg", place_of_worship |-> "temple.svg"]

\* L.map's centre when nothing was submitted.
DefaultCenter == <<"28.7041", "77.1025">>

initialValues == [name |-> "", latitude |-> "", longitude |-> "", type |-> ""]

\* What the form can hold when Submit is pressed: every amenity type at two
\* places, and one form per validation rule that breaks that rule alone,
\* besides the untouched form.
ValidValues ==
  [name : {"X"}, latitude : {"28.7", "12.9"}, longitude : {"77.1"},
   type : AmenityTypes]

FormValues ==
  ValidValues
    \cup {[[name |-> "X", latitude |-> "28.7", longitude |-> "77.1",
           type |-> "hospital"] EXCEPT ![f] = ""] :
            f \in {"name", "latitude", "longitude", "type"}}
    \cup {initialValues}

\* null, and a non-null object v, of inputFromForm.
Null == <<>>
Obj(v) == <<v>>

\* queryResult: undefined, or an array.
Undefined == [defined |-> FALSE, elements |-> <<>>]
Array(es) == [defined |-> TRUE, elements |-> es]

NoFetch == [id |-> 0, latitude |-> "", longitude |-> "", type |-> ""]
NoOutcome == [kind |-> "", n |-> 0]

VARIABLES
  queryBy,        \* useState("")
  queryResult,    \* useState([])
  inputFromForm,  \* useState(null)
  mapRef,         \* useRef(null).current: index into widgets, 0 for null
  widgets,        \* every L.map ever created: centre, times removed, markers
  pending,        \* fetches in flight
  mounted,        \* the component is mounted
  unhandled,      \* a promise of the fetch IIFE rejected with no handler
  issued,         \* network requests sent by the last handler
  calls,          \* Leaflet calls made by the last handler, in order
  badOps,         \* marker operations made on a widget already removed
  completed,      \* ids of the fetches that have settled
  resultQuery,    \* the fetch whose answer queryResult holds (NoFetch: none)
  lastOk,         \* per amenity type, the answer of its latest successful fetch
  history,        \* whether lastOk is recorded in this run
  lastEvent       \* the handler that ran last, with its inputs

vars ==
  <<queryBy, queryResult, inputFromForm, mapRef, widgets, pending, mounted,
    unhandled, issued, calls, badOps, completed, resultQuery, lastOk, history,
    lastEvent>>

\* The component's state as one record, threaded through a handler.
State ==
  [queryBy |-> queryBy, queryResult |-> queryResult,
   inputFromForm |-> inputFromForm, mapRef |-> mapRef, widgets |-> widgets,
   pending |-> pending, mounted |-> mounted, unhandled |-> unhandled,
   issued |-> <<>>, calls |-> <<>>, badOps |-> badOps,
   completed |-> completed, resultQuery |-> resultQuery, lastOk |-> lastOk,
   history |-> history]

Store(s, ev) ==
  /\ queryBy' = s.queryBy
  /\ queryResult' = s.queryResult
  /\ inputFromForm' = s.inputFromForm
  /\ mapRef' = s.mapRef
  /\ widgets' = s.widgets
  /\ pending' = s.pending
  /\ mounted' = s.mounted
  /\ unhandled' = s.unhandled
  /\ issued' = s.issued
  /\ calls' = s.calls
  /\ badOps' = s.badOps
  /\ completed' = s.completed
  /\ resultQuery' = s.resultQuery
  /\ lastOk' = s.lastOk
  /\ history' = s.history
  /\ lastEvent' = ev

Event(kind, values, same, fetch, outcome) ==
  [kind |-> kind, values |-> values, same |-> same, fetch |-> fetch,
   outcome |-> outcome]

\* ------------------------------------------------------------- validation
\* validationSchema with the rule on name left out.
validationSchemaNoName(values) ==
  {f \in {"latitude", "longitude", "type"} : values[f] = ""}

\* The fields Yup rejects.  A number input holds a number or "".
validationSchema(values) ==
  {f \in {"name", "latitude", "longitude", "type"} : values[f] = ""}

\* ------------------------------------------------------------ the widget
\* createMap(): the centre of the new widget.
createMap(input) ==
  [center |-> IF input # Null
              THEN <<input[1].latitude, input[1].longitude>>
              ELSE DefaultCenter,
   removed |-> 0,
   markers |-> <<>>]

\* The request of fetchQueryDetail: the Overpass query of the URL.
Url(latitude, longitude, type) ==
  [around |-> Radius, latitude |-> latitude, longitude |-> longitude,
   amenity |-> type]

\* fetchQueryDetail without its test of inputFromForm.
fetchQueryDetailUnguarded(s) ==
  LET v == IF s.inputFromForm # Null THEN s.inputFromForm[1]
           ELSE [initialValues EXCEPT !.latitude = "undefined",
                                      !.longitude = "undefined"]
      f == [id |-> s.mapRef, latitude |-> v.latitude,
            longitude |-> v.longitude, type |-> s.queryBy]
  IN [s EXCEPT !.pending = @ \cup {f},
               !.issued = Append(@, Url(v.latitude, v.longitude, s.queryBy))]

\* fetchQueryDetail up to its first await on fetch(): a request is sent only
\* when inputFromForm is set; otherwise the function returns undefined.
fetchQueryDetail(s) ==
  IF s.inputFromForm # Null
  THEN LET v == s.inputFromForm[1]
           f == [id |-> s.mapRef, latitude |-> v.latitude,
                 longitude |-> v.longitude, type |-> s.queryBy]
       IN [s EXCEPT !.pending = @ \cup {f},
                    !.issued = Append(@, Url(v.latitude, v.longitude, s.queryBy))]
  ELSE s

\* The setup of the map effect: a new widget into mapRef, then the fetch.
mapEffect(s) ==
  LET id == Len(s.widgets) + 1
      s1 == [s EXCEPT !.widgets = Append(@, createMap(s.inputFromForm)),
                      !.mapRef = id,
                      !.calls = Append(@, <<"L.map", id, 0>>)]
  IN fetchQueryDetail(s1)

\* The cleanup of the map effect: mapRef.current.remove(), which also takes
\* the widget's layers off.
mapCleanup(s) ==
  [s EXCEPT !.widgets[s.mapRef].removed = @ + 1,
            !.widgets[s.mapRef].markers = <<>>,
            !.calls = Append(@, <<"remove", s.mapRef, 0>>)]

IconFor(type) ==
  IF type \in DOMAIN amenityIcons THEN amenityIcons[type] ELSE "undefined"

\* L.marker([obj.lat, obj.lon], {icon}) with its popup.
Marker(obj, icon) ==
  [latlng |-> <<obj.lat, obj.lon>>, icon |-> icon,
   popup |-> <<obj.tags.name, obj.lat, obj.lon>>, obj |-> obj]

\* markerEffect without the removal of the markers already on the map.
markerEffectNoClear(s) ==
  LET m == s.mapRef
      es == IF s.queryResult.defined THEN s.queryResult.elements ELSE <<>>
      new == [i \in 1..Len(es) |-> Marker(es[i], IconFor(s.queryBy))]
      ons == [i \in 1..Len(new) |-> <<"addTo", m, new[i].obj.tags.name>>]
  IN [s EXCEPT !.widgets[m].markers = @ \o new, !.calls = @ \o ons]

\* The marker effect: every marker off mapRef.current, then one marker per
\* element of queryResult (none when it is undefined).
markerEffect(s) ==
  LET m == s.mapRef
      old == s.widgets[m].markers
      es == IF s.queryResult.defined THEN s.queryResult.elements ELSE <<>>
      icon == IconFor(s.queryBy)
      new == [i \in 1..Len(es) |-> Marker(es[i], icon)]
      offs == [i \in 1..Len(old) |-> <<"removeLayer", m, old[i].obj.tags.name>>]
      ons == [i \in 1..Len(new) |-> <<"addTo", m, new[i].obj.tags.name>>]
  IN [s EXCEPT !.widgets[m].markers = new,
               !.calls = @ \o offs \o ons,
               !.badOps = IF s.widgets[m].removed > 0
                          THEN @ + Len(offs) + Len(ons) ELSE @]

\* Commit with no cleanup of the map effect: the old widget stays.
CommitNoCleanup(s, run1, run2) ==
  LET a == IF run1 THEN mapEffect(s) ELSE s
      b == IF run2 THEN markerEffect(a) ELSE a
  IN IF run1 /\ b.inputFromForm = Null /\ b.queryResult.defined
     THEN markerEffect([b EXCEPT !.queryResult = Undefined,
                                 !.resultQuery = NoFetch])
     ELSE b

\* Commit with the cleanup run after the setup: it removes the new widget.
CommitCleanupLast(s, run1, run2) ==
  LET a == IF run1 THEN mapCleanup(mapEffect(s)) ELSE s
      b == IF run2 THEN markerEffect(a) ELSE a
  IN IF run1 /\ b.inputFromForm = Null /\ b.queryResult.defined
     THEN markerEffect([b EXCEPT !.queryResult = Undefined,
                                 !.resultQuery = NoFetch])
     ELSE b

\* Commit with queryBy missing from the map effect's dependencies.
CommitInputDepsOnly(s, run1, run2) ==
  LET r1 == run1 /\ s.inputFromForm # inputFromForm
      a == IF r1 THEN mapEffect(mapCleanup(s)) ELSE s
      b == IF run2 THEN markerEffect(a) ELSE a
  IN IF r1 /\ b.inputFromForm = Null /\ b.queryResult.defined
     THEN markerEffect([b EXCEPT !.queryResult = Undefined,
                                 !.resultQuery = NoFetch])
     ELSE b

\* One commit: cleanups, then setups in declaration order.  run1: the map
\* effect's dependencies [queryBy, inputFromForm] changed; run2: the marker
\* effect's [queryResult, queryBy] changed.  When the map effect ran with no
\* input, its IIFE continues right after with setQueryResult(undefined),
\* which renders again and runs the marker effect if queryResult changed.
Commit(s, run1, run2) ==
  LET a == IF run1 THEN mapEffect(mapCleanup(s)) ELSE s
      b == IF run2 THEN markerEffect(a) ELSE a
  IN IF run1 /\ b.inputFromForm = Null /\ b.queryResult.defined
     THEN markerEffect([b EXCEPT !.queryResult = Undefined,
                                 !.resultQuery = NoFetch])
     ELSE b

\* The first commit: both effects set up, nothing to clean up.
MountCommit(s) ==
  LET b == markerEffect(mapEffect(s))
  IN IF b.inputFromForm = Null /\ b.queryResult.defined
     THEN markerEffect([b EXCEPT !.queryResult = Undefined])
     ELSE b

UseState ==
  [queryBy |-> "", queryResult |-> Array(<<>>), inputFromForm |-> Null,
   mapRef |-> 0, widgets |-> <<>>, pending |-> {}, mounted |-> TRUE,
   unhandled |-> FALSE, issued |-> <<>>, calls |-> <<>>, badOps |-> 0,
   completed |-> {}, resultQuery |-> NoFetch,
   lastOk |-> [t \in AmenityTypes |-> Undefined], history |-> FALSE]

InitWith(h) ==
  LET s == MountCommit([UseState EXCEPT !.history = h])
  IN /\ queryBy = s.queryBy
     /\ queryResult = s.queryResult
     /\ inputFromForm = s.inputFromForm
     /\ mapRef = s.mapRef
     /\ widgets = s.widgets
     /\ pending = s.pending
     /\ mounted = s.mounted
     /\ unhandled = s.unhandled
     /\ issued = s.issued
     /\ calls = s.calls
     /\ badOps = s.badOps
     /\ completed = s.completed
     /\ resultQuery = s.resultQuery
     /\ lastOk = s.lastOk
     /\ history = s.history
     /\ lastEvent = Event("mount", initialValues, FALSE, NoFetch, NoOutcome)

Init == InitWith(FALSE)

\* The same program with the history variable lastOk recorded.
InitHistory == InitWith(TRUE)

\* ---------------------------------------------------------------- handlers
\* onSubmit with each setter rendering on its own: the first render still
\* has the previous queryBy.
onSubmitUnbatched(s, values, same) ==
  LET s1 == Commit([s EXCEPT !.inputFromForm = Obj(values)], ~same, FALSE)
      qb == values.type # s.queryBy
  IN Commit([s1 EXCEPT !.queryBy = values.type], qb, qb)

\* Formik's onSubmit: setInputFromForm(values); setQueryBy(values.type).
\* same: values is the very object stored by the previous submission (the
\* form was not edited since).
onSubmit(s, values, same) ==
  LET s1 == [s EXCEPT !.inputFromForm = Obj(values), !.queryBy = values.type]
      qb == values.type # s.queryBy
  IN Commit(s1, qb \/ ~same, qb)

\* Pressing Submit: Formik validates and calls onSubmit only with no error.
Submit(values, same) ==
  /\ mounted
  /\ same => inputFromForm = Obj(values)
  /\ Len(widgets) < MaxMaps
  /\ Store(IF validationSchema(values) = {}
           THEN onSubmit(State, values, same)
           ELSE State,
           Event("submit", values, same, NoFetch, NoOutcome))

\* The amenity selector's onChange: setQueryBy(selectedValue).
onChange(s, selectedValue) ==
  LET qb == selectedValue # s.queryBy
  IN Commit([s EXCEPT !.queryBy = selectedValue], qb, qb)

SelectAmenity(selectedValue) ==
  /\ mounted
  /\ Len(widgets) < MaxMaps
  /\ Store(onChange(State, selectedValue),
           Event("select", [initialValues EXCEPT !.type = selectedValue],
                 FALSE, NoFetch, NoOutcome))

\* ------------------------------------------------------------ the network
Outcomes ==
  {[kind |-> k, n |-> 0] : k \in {"reject", "parse", "noelements"}}
    \cup {[kind |-> "ok", n |-> n] : n \in 0..MaxResultLen}

\* The k-th node the API knows for a query.
Element(f, k) ==
  [lat |-> f.latitude, lon |-> f.longitude,
   tags |-> [name |-> k, amenity |-> f.type]]

\* await fetch(...), await response.json(), responseJson?.elements: either
\* throws, or yields the elements (undefined when the body has none).
fetchResponse(f, o) ==
  [threw |-> o.kind \in {"reject", "parse"},
   data |-> IF o.kind = "ok"
            THEN Array([k \in 1..o.n |-> Element(f, k)])
            ELSE Undefined]

\* fetchQueryDetail with no catch.
fetchQueryDetailNoCatch(r) == r

\* The catch of fetchQueryDetail: log and return [].
fetchQueryDetailCatch(r) ==
  IF r.threw THEN [threw |-> FALSE, data |-> Array(<<>>)] ELSE r

\* setQueryResult(data) and the render it causes.  Two arrays are never the
\* same object; undefined is the same as undefined.
setQueryResult(s, data, f) ==
  IF ~s.mounted
  THEN s
  ELSE IF data.defined \/ s.queryResult.defined
       THEN Commit([s EXCEPT !.queryResult = data, !.resultQuery = f],
                   FALSE, TRUE)
       ELSE [s EXCEPT !.resultQuery = f]

\* The IIFE dropping the answer of any fetch but the latest.
fetchSettledLatestOnly(s, f, o) ==
  LET r == fetchQueryDetailCatch(fetchResponse(f, o))
      s1 == [s EXCEPT !.pending = @ \ {f},
                      !.completed = IF s.mounted THEN @ \cup {f.id} ELSE @]
  IN IF f.id = s.mapRef THEN setQueryResult(s1, r.data, f) ELSE s1

\* The IIFE of the map effect after its await: the data goes to
\* setQueryResult; an exception leaves the IIFE's promise rejected.  The
\* history (completed, and lastOk when recorded) is kept while mounted.
fetchSettled(s, f, o) ==
  LET r == fetchQueryDetailCatch(fetchResponse(f, o))
      s0 == [s EXCEPT !.pending = @ \ {f}]
      s1 == IF s.mounted
            THEN [s0 EXCEPT !.completed = @ \cup {f.id},
                            !.lastOk = IF s.history /\ o.kind \in {"ok", "noelements"}
                                       THEN [@ EXCEPT ![f.type] =
                                               Array(r.data.elements)]
                                       ELSE @]
            ELSE s0
  IN IF r.threw
     THEN [s1 EXCEPT !.unhandled = TRUE]
     ELSE setQueryResult(s1, r.data, f)

FetchComplete(f, o) ==
  /\ f \in pending
  /\ Store(fetchSettled(State, f, o), Event("response", initialValues, FALSE, f, o))

\* Unmounting runs the map effect's cleanup.
Unmount ==
  /\ mounted
  /\ Store([mapCleanup(State) EXCEPT !.mounted = FALSE, !.completed = {},
                                     !.lastOk = UseState.lastOk],
           Event("unmount", initialValues, FALSE, NoFetch, NoOutcome))

Next ==
  \/ \E values \in FormValues, same \in BOOLEAN : Submit(values, same)
  \/ \E selectedValue \in AmenityTypes : SelectAmenity(selectedValue)
  \/ \E f \in pending, o \in Outcomes : FetchComplete(f, o)
  \/ Unmount

Spec == Init /\ [][Next]_vars

SpecHistory == InitHistory /\ [][Next]_vars

\* ------------------------------------------------------------ the claims
LiveMarkers == widgets[mapRef].markers

Objs(markers) == [i \in 1..Len(markers) |-> markers[i].obj]

\* The claims' notion of a valid form: name non-empty, latitude and
\* longitude numeric, type set.
ValidForm(v) ==
  v.name # "" /\ v.latitude # "" /\ v.longitude # "" /\ v.type # ""

Submitted(ev) ==
  Url(ev.values.latitude, ev.values.longitude, ev.values.type)

Failed(o) == o.kind \in {"reject", "parse"}

Ops(cs, op) == {i \in DOMAIN cs : cs[i][1] = op}

\* C1: the markers on the live map are exactly the answer of the most recent
\* successful fetch for the selected amenity type (none when there is no such
\* fetch), and no marker drawn comes from a fetch for another type.
C1_MarkersAreLatestFetchOfType ==
  mounted =>
    /\ Objs(LiveMarkers) =
         (IF queryBy \in AmenityTypes THEN lastOk[queryBy].elements ELSE <<>>)
    /\ \A i \in DOMAIN LiveMarkers : LiveMarkers[i].obj.tags.amenity = queryBy

\* C2 as stated: every valid submission sends exactly one request, the one
\* for the submitted latitude, longitude and type.
C2_EverySubmitFetchesOnce ==
  (lastEvent.kind = "submit" /\ ValidForm(lastEvent.values))
    => issued = <<Submitted(lastEvent)>>

\* C2 amended: a valid submission sends exactly one request, for the submitted
\* latitude, longitude and type, when the form was edited since the previous
\* submission or its type differs from the selected one; otherwise (the
\* unedited form resubmitted with its type still selected) it sends none.
\* A request with the previous type or coordinates is never sent.
C2_SubmitFetchesOnceOnChange ==
  [][(lastEvent'.kind = "submit" /\ ValidForm(lastEvent'.values))
       => issued' = IF ~lastEvent'.same \/ lastEvent'.values.type # queryBy
                    THEN <<Submitted(lastEvent')>>
                    ELSE <<>>]_vars

\* A second query is submitted, with another type, while the answer to the
\* first is displayed.
C2_Witness ==
  /\ lastEvent.kind = "submit"
  /\ ValidForm(lastEvent.values)
  /\ issued = <<Submitted(lastEvent)>>
  /\ Len(widgets) = 3
  /\ LiveMarkers # <<>>

\* C3: a submission whose form fails validation does not run the submit
\* handler: the stored query, the selected type and the query result stay,
\* the map is not recreated and nothing is fetched.
C3_InvalidSubmitBlocked ==
  [][(lastEvent'.kind = "submit" /\ ~ValidForm(lastEvent'.values))
       => /\ UNCHANGED <<inputFromForm, queryBy, queryResult, mapRef, widgets,
                         pending>>
          /\ issued' = <<>>
          /\ calls' = <<>>]_vars

\* The form is submitted with an empty name, all else filled in, after an
\* earlier query was stored.
C3_Witness ==
  /\ lastEvent.kind = "submit"
  /\ lastEvent.values.name = ""
  /\ lastEvent.values.latitude # ""
  /\ lastEvent.values.longitude # ""
  /\ lastEvent.values.type # ""
  /\ inputFromForm # Null
  /\ lastEvent.values.type # queryBy

\* C4: once a query is stored, selecting another amenity type keeps the
\* stored coordinates, sends one request for them with the new type, and
\* takes every marker of the old widget off before a marker is added; the
\* markers then on the map carry the new type's icon.
C4_SelectRefetchesSameCoordinates ==
  [][(lastEvent'.kind = "select" /\ inputFromForm # Null /\ queryBy' # queryBy)
       => /\ inputFromForm' = inputFromForm
          /\ issued' = <<Url(inputFromForm[1].latitude,
                             inputFromForm[1].longitude, queryBy')>>
          /\ widgets'[mapRef].markers = <<>>
          /\ \E r \in Ops(calls', "remove") :
               /\ calls'[r][2] = mapRef
               /\ \A a \in Ops(calls', "addTo") : r < a
          /\ \A i \in DOMAIN widgets'[mapRef'].markers :
               widgets'[mapRef'].markers[i].icon = IconFor(queryBy')]_vars

\* Another type is selected while markers of a stored query are displayed.
C4_Witness ==
  /\ lastEvent.kind = "select"
  /\ inputFromForm # Null
  /\ Len(issued) = 1
  /\ issued[1].amenity = lastEvent.values.type
  /\ resultQuery.type \notin {"", queryBy}
  /\ Ops(calls, "addTo") # {}

\* C5: a fetch that rejects or whose body does not parse is caught in
\* fetchQueryDetail, which yields []; with that applied the map carries no
\* marker; nothing is left unhandled and no request is sent again.
C5_FailedFetchShowsNothing ==
  /\ ~unhandled
  /\ (lastEvent.kind = "response" /\ Failed(lastEvent.outcome))
       => /\ issued = <<>>
          /\ lastEvent.fetch \notin pending
          /\ mounted => /\ queryResult = Array(<<>>)
                        /\ resultQuery = lastEvent.fetch
                        /\ LiveMarkers = <<>>

\* A fetch fails while markers of an earlier answer are on the map: they are
\* taken off.
C5_Witness ==
  /\ lastEvent.kind = "response"
  /\ Failed(lastEvent.outcome)
  /\ mounted
  /\ Ops(calls, "removeLayer") # {}

\* C6: when an answer of N elements is applied, the marker effect first takes
\* every marker off the live map and then adds N markers, the i-th at the
\* i-th element's coordinates with the icon of the selected type, so the map
\* carries exactly N markers.
C6_AnswerOfNDrawsNMarkers ==
  [][(lastEvent'.kind = "response" /\ lastEvent'.outcome.kind = "ok" /\ mounted)
       => LET n == lastEvent'.outcome.n
              old == LiveMarkers
              new == widgets'[mapRef'].markers
          IN /\ mapRef' = mapRef
             /\ Len(new) = n
             /\ Len(queryResult'.elements) = n
             /\ \A i \in 1..n :
                  /\ new[i].latlng = <<queryResult'.elements[i].lat,
                                       queryResult'.elements[i].lon>>
                  /\ new[i].icon = IconFor(queryBy')
                  /\ new[i].obj = queryResult'.elements[i]
             /\ Len(calls') = Len(old) + n
             /\ \A i \in 1..Len(old) :
                  calls'[i] = <<"removeLayer", mapRef, old[i].obj.tags.name>>
             /\ \A i \in 1..n :
                  calls'[Len(old) + i] = <<"addTo", mapRef, new[i].obj.tags.name>>]_vars

\* An answer of two elements replaces markers already on the map.
C6_Witness ==
  /\ lastEvent.kind = "response"
  /\ lastEvent.outcome.kind = "ok"
  /\ lastEvent.outcome.n = 2
  /\ mounted
  /\ Len(LiveMarkers) = 2
  /\ Ops(calls, "removeLayer") # {}

C9_AnswersAppliedInCompletionOrder ==
  [][\A f \in pending :
       \/ f \in pending'
       \/ /\ lastEvent'.kind = "response"
          /\ lastEvent'.fetch = f
          /\ mounted =>
               /\ resultQuery' = f
               /\ lastEvent'.outcome.kind = "ok" =>
                    /\ Len(queryResult'.elements) = lastEvent'.outcome.n
                    /\ \A i \in DOMAIN queryResult'.elements :
                         queryResult'.elements[i].tags.amenity = f.type]_vars

\* The earlier of two fetches settles last: the markers displayed answer a
\* query that is no longer the current one.
C9_Witness ==
  /\ mounted
  /\ lastEvent.kind = "response"
  /\ resultQuery = lastEvent.fetch
  /\ \E id \in completed : id > resultQuery.id
  /\ \/ resultQuery.type # queryBy
     \/ <<resultQuery.latitude, resultQuery.longitude>> # widgets[mapRef].center
  /\ LiveMarkers # <<>>
  /\ Objs(LiveMarkers) = queryResult.elements

\* C10: no marker is taken off or added to a widget already removed, a
\* widget is never removed twice, every widget but the live one has been
\* removed, and a removed widget carries no marker.
C10_MarkersOnlyOnLiveMap ==
  /\ badOps = 0
  /\ \A i \in DOMAIN widgets :
       /\ widgets[i].removed = (IF mounted /\ i = mapRef THEN 0 ELSE 1)
       /\ widgets[i].removed > 0 => widgets[i].markers = <<>>
  /\ \A i \in DOMAIN calls :
       calls[i][1] \in {"removeLayer", "addTo"} => (mounted /\ calls[i][2] = mapRef)

\* A fetch settles after the widget that was live when it started was
\* removed, and its markers are drawn.
C10_Witness ==
  /\ lastEvent.kind = "response"
  /\ mounted
  /\ widgets[lastEvent.fetch.id].removed = 1
  /\ Ops(calls, "addTo") # {}

====
